---- MODULE Spec2Model ----
(***************************************************************************)
(* A model of GeoBases/GeoBaseModule.py (class GeoBase): the record store, *)
(* the geographical searches (with and without the grid), the fuzzy        *)
(* searches and the cache / bias cache that wrap them.                     *)
(*                                                                         *)
(* Conventions.  A Python optional value is a sequence of length 0 (None)  *)
(* or 1.  A dict is a function.  A call's outcome is a record whose field  *)
(* exc is "" when the call returned and the exception's name when it       *)
(* raised.  Similarity ratios are integer percentages (0.75 is 75) and     *)
(* distances are whole kilometres.                                         *)
(***************************************************************************)
EXTENDS Integers, Sequences, FiniteSets, TLC

VARIABLES
    things,            \* self._things : key -> (field -> value)
    fields,            \* self.fields  : list of field names
    ggrid,             \* self._ggrid  : None, or the grid built by createGrid
    cache_fuzzy,       \* self._cache_fuzzy      : entry -> match
    bias_cache_fuzzy,  \* self._bias_cache_fuzzy : entry -> forced result
    ncompute,          \* history: entry -> fuzzyGet runs made for it by
                       \* fuzzyGetCached since the last clearCache
    mutations,         \* history: number of set / setWithDict / delete calls
    ret                \* the last call: its name, arguments and outcome

vars == <<things, fields, ggrid, cache_fuzzy, bias_cache_fuzzy, ncompute,
          mutations, ret>>

-----------------------------------------------------------------------------
(* Python values *)

None == <<>>
Some(x) == <<x>>

EmptyDict == [x \in {} |-> x]
DictSet(d, k, v) == [x \in DOMAIN d \cup {k} |-> IF x = k THEN v ELSE d[x]]
DictDel(d, k) == [x \in DOMAIN d \ {k} |-> d[x]]

Range(s) == {s[i] : i \in DOMAIN s}
Min2(a, b) == IF a <= b THEN a ELSE b

\* the values a forced (biased) result or a match can be: a string or a list
PyStr(s) == [kind |-> "str", str |-> s, list |-> <<>>]
PyList(l) == [kind |-> "list", str |-> "", list |-> l]
PyNone == [kind |-> "none", str |-> "", list |-> <<>>]

\* float(s): the strings that parse, and their value in degrees
FloatTable == [s \in {"0", "1", "2"} |->
                 CASE s = "0" -> 0 [] s = "1" -> 1 [] s = "2" -> 2]
FloatOk(s) == s \in DOMAIN FloatTable

\* the order of Python's string comparison on the keys of the model
KeyOrder == <<"BQT", "CDG", "NEW", "ORY", "XXX">>
KeyRank(k) == CHOOSE i \in DOMAIN KeyOrder : KeyOrder[i] = k

\* (a, j) < (b, k) for tuples of a number and a key
PairLess(p, q) ==
    \/ p[1] < q[1]
    \/ p[1] = q[1] /\ KeyRank(p[2]) < KeyRank(q[2])

\* sorted(pairs): the ascending list of a set of (number, key) tuples
RECURSIVE SortedAsc(_)
SortedAsc(S) ==
    IF S = {} THEN <<>>
    ELSE LET m == CHOOSE x \in S : \A y \in S \ {x} : PairLess(x, y)
         IN  <<m>> \o SortedAsc(S \ {m})

RECURSIVE Reverse(_)
Reverse(s) == IF s = <<>> THEN <<>> ELSE Reverse(Tail(s)) \o <<Head(s)>>

\* s[:n]
Take(s, n) == SubSeq(s, 1, Min2(n, Len(s)))

-----------------------------------------------------------------------------
(* The data sources the constructor can be given *)

NoneHeader == "None"
Comment == <<"#">>

GeoHeaders == <<"code", "name", "lat", "lng">>

FeedSource == [source |-> None, headers |-> <<>>, key_col |-> <<>>]

AirportsSource ==
    [source |-> Some(<< Comment,
                        <<"ORY", "Paris Orly", "0", "0">>,
                        <<"CDG", "Paris Charles de Gaulle", "0", "1">>,
                        <<"BQT", "Brest", "1", "1">> >>),
     headers |-> GeoHeaders, key_col |-> <<"code">>]

NamesSource ==
    [source |-> Some(<< <<"CDG", "Paris Charles de Gaulle", "x">>,
                        <<"BQT", "Brest", "y">> >>),
     headers |-> <<"code", "name", NoneHeader>>, key_col |-> <<"code">>]

DuplicateSource ==
    [source |-> Some(<< <<"ORY", "Paris Orly", "0", "0">>,
                        <<"XXX", "Brest", "", "1">>,
                        <<"ORY", "Brest", "2", "2">> >>),
     headers |-> GeoHeaders, key_col |-> <<"code">>]

StationsSource ==
    [source |-> Some(<< <<"XXX", "Brest", "", "1">> >>),
     headers |-> GeoHeaders, key_col |-> <<"code">>]

\* CDG twice, the later line with fewer columns
OverwriteSource ==
    [source |-> Some(<< <<"CDG", "Paris Charles de Gaulle", "x">>,
                        <<"BQT", "Brest", "y">>,
                        <<"CDG", "Roissy">> >>),
     headers |-> <<"code", "name", "info">>, key_col |-> <<"code">>]

Sources == {FeedSource, AirportsSource, NamesSource, DuplicateSource, StationsSource}

-----------------------------------------------------------------------------
(* Loading *)

\* headers.index(h)
Index(headers, h) ==
    CHOOSE i \in DOMAIN headers :
        headers[i] = h /\ \A j \in 1..(i - 1) : headers[j] # h

RECURSIVE JoinCols(_, _, _)
JoinCols(headers, key_col, row) ==
    IF key_col = <<>> THEN ""
    ELSE row[Index(headers, Head(key_col))]
            \o JoinCols(headers, Tail(key_col), row)

\* keyer(row); a str key_col is the one-element list
keyer(headers, key_col, row) == JoinCols(headers, key_col, row)

\* the record a data line makes: __id__, __ln__, then zip(headers, row)
LineRecord(headers, key, line_nb, row) ==
    LET n == Min2(Len(headers), Len(row))
        loaded == {i \in 1..n : headers[i] # NoneHeader}
        names == {headers[i] : i \in loaded}
        \* a header met twice: the later column overwrites the earlier one
        last(h) == CHOOSE i \in loaded :
                      headers[i] = h /\ \A j \in loaded : headers[j] = h => j <= i
    IN  [f \in {"__id__", "__ln__"} \cup names |->
            IF f \in names THEN row[last(f)]
            ELSE IF f = "__id__" THEN key ELSE ToString(line_nb)]

\* a loading that keeps the fields of the earlier lines of a key
RECURSIVE LoadLinesKeepsFields(_, _, _, _, _)
LoadLinesKeepsFields(th, lines, line_nb, headers, key_col) ==
    IF lines = <<>> THEN th
    ELSE LET row == Head(lines)
         IN  IF row = <<>> \/ row = Comment
             THEN LoadLinesKeepsFields(th, Tail(lines), line_nb + 1, headers, key_col)
             ELSE LET key == keyer(headers, key_col, row)
                      new == LineRecord(headers, key, line_nb, row)
                      old == IF key \in DOMAIN th THEN th[key] ELSE EmptyDict
                  IN  LoadLinesKeepsFields(
                          DictSet(th, key,
                                  [f \in DOMAIN old \cup DOMAIN new |->
                                      IF f \in DOMAIN new THEN new[f] ELSE old[f]]),
                          Tail(lines), line_nb + 1, headers, key_col)

RECURSIVE LoadLines(_, _, _, _, _)
LoadLines(th, lines, line_nb, headers, key_col) ==
    IF lines = <<>> THEN th
    ELSE LET row == Head(lines)
         IN  IF row = <<>> \/ row = Comment
             THEN LoadLines(th, Tail(lines), line_nb + 1, headers, key_col)
             ELSE LET key == keyer(headers, key_col, row)
                  IN  LoadLines(DictSet(th, key,
                                        LineRecord(headers, key, line_nb, row)),
                                Tail(lines), line_nb + 1, headers, key_col)

\* [h for h in headers if h is not None]
NotNoneHeaders(headers) == SelectSeq(headers, LAMBDA h : h # NoneHeader)

\* _loadFile: the things and the fields it leaves
loadFile(src) ==
    IF src.source = None
    THEN [things |-> EmptyDict, fields |-> <<>>]
    ELSE [things |-> LoadLines(EmptyDict, src.source[1], 1,
                               src.headers, src.key_col),
          fields |-> <<"__id__", "__ln__">> \o NotNoneHeaders(src.headers)]

-----------------------------------------------------------------------------
(* The store *)

Returned(kind, str, dict) == [exc |-> "", kind |-> kind, str |-> str, dict |-> dict]
Raised(exc) == [exc |-> exc, kind |-> "none", str |-> "", dict |-> EmptyDict]

ThingNotFound == "KeyError: Thing not found"
FieldNotFound == "KeyError: Field not in fields"

\* a get that hands the default out for an unknown field too
getDefaultsField(th, key, field, default) ==
    IF key \notin DOMAIN th
    THEN IF default # None
         THEN Returned("str", default[1], EmptyDict)
         ELSE Raised(ThingNotFound)
    ELSE IF field = None
         THEN Returned("dict", "", th[key])
         ELSE IF field[1] \in DOMAIN th[key]
              THEN Returned("str", th[key][field[1]], EmptyDict)
              ELSE IF default # None
                   THEN Returned("str", default[1], EmptyDict)
                   ELSE Raised(FieldNotFound)

\* get(key, field=None, default=None)
get(th, key, field, default) ==
    IF key \notin DOMAIN th
    THEN IF default # None
         THEN Returned("str", default[1], EmptyDict)
         ELSE Raised(ThingNotFound)
    ELSE IF field = None
         THEN Returned("dict", "", th[key])
         ELSE IF field[1] \in DOMAIN th[key]
              THEN Returned("str", th[key][field[1]], EmptyDict)
              ELSE Raised(FieldNotFound)

\* getLocation(key): float(get(key, 'lat')), float(get(key, 'lng')), evaluated
\* left to right; only ValueError is caught
getLocation(th, key) ==
    LET lat == get(th, key, Some("lat"), None)
        lng == get(th, key, Some("lng"), None)
    IN  IF lat.exc # "" THEN [exc |-> lat.exc, loc |-> None]
        ELSE IF ~FloatOk(lat.str) THEN [exc |-> "", loc |-> None]
        ELSE IF lng.exc # "" THEN [exc |-> lng.exc, loc |-> None]
        ELSE IF ~FloatOk(lng.str) THEN [exc |-> "", loc |-> None]
        ELSE [exc |-> "", loc |-> Some(<<FloatTable[lat.str], FloatTable[lng.str]>>)]

FIELDS_FOR_GEO == {"lat", "lng"}

\* hasGeoSupport()
hasGeoSupport(flds) == FIELDS_FOR_GEO \cap Range(flds) # {}

-----------------------------------------------------------------------------
(* Distances and the grid (GeoUtils, GeoGridModule) *)

KmPerDegree == 111
GridRadius == 50

Abs(x) == IF x < 0 THEN 0 - x ELSE x

\* the largest r with r * r <= n, for n <= hi * hi
ISqrt(n, hi) == CHOOSE r \in 0..hi : r * r <= n /\ (r + 1) * (r + 1) > n

\* haversine(p, q), in kilometres, on the few degrees of the model
haversine(p, q) ==
    LET dlat == Abs(p[1] - q[1]) * KmPerDegree
        dlng == Abs(p[2] - q[2]) * KmPerDegree
    IN  ISqrt(dlat * dlat + dlng * dlng, dlat + dlng)

\* a radius is a number of kilometres or +infinity
Km(r) == [inf |-> FALSE, km |-> r]
PosInf == [inf |-> TRUE, km |-> 0]
WithinRadius(dist, radius) == radius.inf \/ dist <= radius.km

\* the cell of a point: latitude and longitude quantized by the cell edge
CellOf(radius, lat_lng) ==
    <<(lat_lng[1] * KmPerDegree) \div radius, (lat_lng[2] * KmPerDegree) \div radius>>

EmptyGrid == [radius |-> GridRadius, keys |-> EmptyDict]

\* GeoGrid.add(key, lat_lng): the key's cell and position
GridAdd(g, key, lat_lng) ==
    [g EXCEPT !.keys = DictSet(g.keys, key,
                               [case |-> CellOf(g.radius, lat_lng), lat_lng |-> lat_lng])]

\* ceil(a / b) for b > 0
CeilDiv(a, b) == (a + b - 1) \div b

\* the keys of the cells within n cells of the centre, in each direction
GridRing(g, centre, n) ==
    {k \in DOMAIN g.keys :
        /\ Abs(g.keys[k].case[1] - centre[1]) <= n
        /\ Abs(g.keys[k].case[2] - centre[2]) <= n}

\* GeoGrid.findNearPoint(lat_lng, radius, double_check): a set of (dist, key)
GridFindNearPoint(g, lat_lng, radius, double_check) ==
    LET cands == IF radius.inf THEN DOMAIN g.keys
                 ELSE IF radius.km < 0 THEN {}
                 ELSE GridRing(g, CellOf(g.radius, lat_lng), CeilDiv(radius.km, g.radius))
        pairs == {<<haversine(lat_lng, g.keys[k].lat_lng), k>> : k \in cands}
    IN  IF double_check THEN {p \in pairs : WithinRadius(p[1], radius)} ELSE pairs

\* GeoGrid.findNearKey(key, radius, double_check): nothing for a key not in the grid
GridFindNearKey(g, key, radius, double_check) ==
    IF key \notin DOMAIN g.keys THEN {}
    ELSE GridFindNearPoint(g, g.keys[key].lat_lng, radius, double_check)

\* the largest cell distance between the centre and a key of the grid
GridSpan(g, centre) ==
    LET ds == {Abs(g.keys[k].case[i] - centre[i]) : k \in DOMAIN g.keys, i \in {1, 2}}
    IN  IF ds = {} THEN 0 ELSE CHOOSE d \in ds : \A e \in ds : e <= d

\* ring by ring from the centre cell, until the N-th best candidate found is no
\* farther than any cell not yet visited can be, or the grid is exhausted
RECURSIVE GridExpand(_, _, _, _, _)
GridExpand(g, lat_lng, N, from_keys, n) ==
    LET centre == CellOf(g.radius, lat_lng)
        found == {<<haversine(lat_lng, g.keys[k].lat_lng), k>> :
                    k \in GridRing(g, centre, n) \cap from_keys}
        best == Take(SortedAsc(found), N)
    IN  IF n >= GridSpan(g, centre) THEN best
        ELSE IF Len(best) >= N /\ (N = 0 \/ best[Len(best)][1] <= n * g.radius) THEN best
        ELSE GridExpand(g, lat_lng, N, from_keys, n + 1)

\* GeoGrid.findClosestFromPoint(lat_lng, N, double_check, from_keys): a list
GridFindClosestFromPoint(g, lat_lng, N, double_check, from_keys) ==
    IF N <= 0 THEN <<>> ELSE GridExpand(g, lat_lng, N, from_keys, 0)

\* createGrid(): the grid, or None without geo support; exc when a location raises
RECURSIVE GridOfKeys(_, _, _)
GridOfKeys(th, keys, g) ==
    IF keys = {} THEN g
    ELSE LET key == CHOOSE k \in keys : TRUE
             loc == getLocation(th, key).loc
         IN  GridOfKeys(th, keys \ {key},
                        IF loc = None THEN g ELSE GridAdd(g, key, loc[1]))

createGrid(th, flds) ==
    IF ~hasGeoSupport(flds) THEN [exc |-> "", ggrid |-> None]
    ELSE IF \E k \in DOMAIN th : getLocation(th, k).exc # ""
         THEN [exc |-> FieldNotFound, ggrid |-> None]
         ELSE [exc |-> "", ggrid |-> Some(GridOfKeys(th, DOMAIN th, EmptyGrid))]

-----------------------------------------------------------------------------
(* Geographical searches *)

KeyError == "KeyError"
AttributeError == "AttributeError"
TypeError == "TypeError"

IsKeyError(exc) == exc \in {KeyError, ThingNotFound, FieldNotFound}

\* from_keys=None means iter(self)
KeysOrAll(th, from_keys) == IF from_keys = None THEN DOMAIN th ELSE from_keys[1]

\* _buildDistances(lat_lng_ref, keys): the (dist, key) of the keys that have a
\* location; a key whose getLocation raises makes the iteration raise
buildDistances(th, lat_lng_ref, keys) ==
    IF lat_lng_ref = None THEN [exc |-> "", out |-> {}]
    ELSE IF \E k \in keys : getLocation(th, k).exc # ""
         THEN [exc |-> KeyError, out |-> {}]
         ELSE [exc |-> "",
               out |-> {<<haversine(lat_lng_ref[1], getLocation(th, k).loc[1]), k>> :
                          k \in {j \in keys : getLocation(th, j).loc # None}}]

\* a findNearPoint whose grid branch forgets the from_keys post-filter
findNearPointNoPostFilter(th, g, lat_lng, radius, from_keys, grid, double_check) ==
    LET keys == KeysOrAll(th, from_keys)
    IN  IF grid
        THEN IF g = None THEN [exc |-> AttributeError, out |-> {}]
             ELSE IF lat_lng = None THEN [exc |-> TypeError, out |-> {}]
             ELSE [exc |-> "",
                   out |-> GridFindNearPoint(g[1], lat_lng[1], radius, double_check)]
        ELSE LET ds == buildDistances(th, lat_lng, keys)
             IN  [exc |-> ds.exc,
                  out |-> {p \in ds.out : WithinRadius(p[1], radius)}]

\* findNearPoint(lat_lng, radius, from_keys, grid, double_check): a set of (dist, key)
findNearPoint(th, g, lat_lng, radius, from_keys, grid, double_check) ==
    LET keys == KeysOrAll(th, from_keys)
    IN  IF grid
        THEN IF g = None THEN [exc |-> AttributeError, out |-> {}]
             ELSE IF lat_lng = None THEN [exc |-> TypeError, out |-> {}]
             ELSE [exc |-> "",
                   out |-> {p \in GridFindNearPoint(g[1], lat_lng[1], radius, double_check) :
                              p[2] \in keys}]
        ELSE LET ds == buildDistances(th, lat_lng, keys)
             IN  [exc |-> ds.exc,
                  out |-> {p \in ds.out : WithinRadius(p[1], radius)}]

\* findNearKey(key, radius, from_keys, grid, double_check)
findNearKey(th, g, key, radius, from_keys, grid, double_check) ==
    LET keys == KeysOrAll(th, from_keys)
    IN  IF grid
        THEN IF g = None THEN [exc |-> AttributeError, out |-> {}]
             ELSE [exc |-> "",
                   out |-> {p \in GridFindNearKey(g[1], key, radius, double_check) :
                              p[2] \in keys}]
        ELSE LET loc == getLocation(th, key)
             IN  IF loc.exc # "" THEN [exc |-> loc.exc, out |-> {}]
                 ELSE findNearPoint(th, g, loc.loc, radius, Some(keys), grid, double_check)

\* an nsmallest that keeps the N largest
nsmallestKeepsLargest(N, ds) ==
    IF N <= 0 THEN [exc |-> "", out |-> <<>>]
    ELSE IF ds.exc # "" THEN [exc |-> ds.exc, out |-> <<>>]
    ELSE [exc |-> "", out |-> Take(Reverse(SortedAsc(ds.out)), N)]

\* heapq.nsmallest(N, pairs): nothing is read from the iterable when N <= 0
nsmallest(N, ds) ==
    IF N <= 0 THEN [exc |-> "", out |-> <<>>]
    ELSE IF ds.exc # "" THEN [exc |-> ds.exc, out |-> <<>>]
    ELSE [exc |-> "", out |-> Take(SortedAsc(ds.out), N)]

\* a findClosestFromPoint whose exhaustive branch searches all the keys
findClosestFromPointAllKeys(th, g, lat_lng, N, from_keys, grid, double_check) ==
    LET keys == KeysOrAll(th, from_keys)
    IN  IF grid
        THEN IF g = None THEN [exc |-> AttributeError, out |-> <<>>]
             ELSE [exc |-> "",
                   out |-> GridFindClosestFromPoint(g[1], lat_lng, N, double_check, keys)]
        ELSE nsmallest(N, buildDistances(th, Some(lat_lng), DOMAIN th))

\* findClosestFromPoint(lat_lng, N, from_keys, grid, double_check): a list of (dist, key)
findClosestFromPoint(th, g, lat_lng, N, from_keys, grid, double_check) ==
    LET keys == KeysOrAll(th, from_keys)
    IN  IF grid
        THEN IF g = None THEN [exc |-> AttributeError, out |-> <<>>]
             ELSE [exc |-> "",
                   out |-> GridFindClosestFromPoint(g[1], lat_lng, N, double_check, keys)]
        ELSE nsmallest(N, buildDistances(th, Some(lat_lng), keys))

-----------------------------------------------------------------------------
(* Fuzzy searches (LevenshteinUtils) *)

ParisTokens == <<"paris", "de", "gaulle">>

\* clean(s): the tokens of the texts of the model
clean(s) ==
    CASE s \in {"paris de gaulle", "Paris  De GAULLE", "paris+de+gaulle"} -> ParisTokens
      [] s = "Paris Charles de Gaulle" -> <<"paris", "charles", "de", "gaulle">>
      [] s = "Paris Orly" -> <<"paris", "orly">>
      [] s \in {"Brest", "brest"} -> <<"brest">>
      [] s \in {"Brussels", "brussels"} -> <<"brussels">>
      [] s = "" -> <<>>
      [] OTHER -> <<s>>

\* '+'.join(tokens)
RECURSIVE PlusJoin(_)
PlusJoin(tokens) ==
    IF tokens = <<>> THEN ""
    ELSE IF Len(tokens) = 1 THEN tokens[1]
    ELSE tokens[1] \o "+" \o PlusJoin(Tail(tokens))

\* mod_leven(a, b): a ratio in 0..100 of the cleaned texts, 100 when they are equal
mod_leven(a, b) ==
    LET A == Range(clean(a))
        B == Range(clean(b))
    IN  IF clean(a) = clean(b) THEN 100
        ELSE (200 * Cardinality(A \cap B)) \div (Cardinality(A) + Cardinality(B))

\* a _buildRatios that keeps every ratio
buildRatiosNoThreshold(th, fuzzy_value, field, keys, min_match) ==
    IF \E k \in keys : get(th, k, Some(field), None).exc # ""
    THEN [exc |-> KeyError, out |-> {}]
    ELSE [exc |-> "",
          out |-> {<<mod_leven(fuzzy_value, get(th, k, Some(field), None).str), k>> :
                     k \in keys}]

\* _buildRatios(fuzzy_value, field, keys, min_match)
buildRatios(th, fuzzy_value, field, keys, min_match) ==
    IF \E k \in keys : get(th, k, Some(field), None).exc # ""
    THEN [exc |-> KeyError, out |-> {}]
    ELSE [exc |-> "",
          out |-> {p \in {<<mod_leven(fuzzy_value, get(th, k, Some(field), None).str), k>> :
                            k \in keys} : p[1] >= min_match}]

\* an nlargest that keeps the n smallest, ascending
nlargestKeepsSmallest(n, rs) ==
    IF n <= 0 THEN [exc |-> "", out |-> <<>>]
    ELSE IF rs.exc # "" THEN [exc |-> rs.exc, out |-> <<>>]
    ELSE [exc |-> "", out |-> Take(SortedAsc(rs.out), n)]

\* heapq.nlargest(n, pairs): nothing is read from the iterable when n <= 0
nlargest(n, rs) ==
    IF n <= 0 THEN [exc |-> "", out |-> <<>>]
    ELSE IF rs.exc # "" THEN [exc |-> rs.exc, out |-> <<>>]
    ELSE [exc |-> "", out |-> Take(Reverse(SortedAsc(rs.out)), n)]

\* sorted(pairs, reverse=True)
sortedReverse(rs) ==
    IF rs.exc # "" THEN [exc |-> rs.exc, out |-> <<>>]
    ELSE [exc |-> "", out |-> Reverse(SortedAsc(rs.out))]

\* fuzzyGet(fuzzy_value, field, approximate, min_match, from_keys): a list of (ratio, key)
fuzzyGet(th, fuzzy_value, field, approximate, min_match, from_keys) ==
    LET iterable == buildRatios(th, fuzzy_value, field, KeysOrAll(th, from_keys), min_match)
    IN  IF approximate = None THEN sortedReverse(iterable)
        ELSE nlargest(approximate[1], iterable)

\* a fuzzyGetAroundLatLng that forgets the radius search
fuzzyGetAroundLatLngAnywhere(th, g, lat_lng, radius, fuzzy_value, field, approximate, min_match, from_keys, grid, double_check) ==
    fuzzyGet(th, fuzzy_value, field, approximate, min_match, from_keys)

\* fuzzyGetAroundLatLng(lat_lng, radius, fuzzy_value, field, approximate, min_match,
\* from_keys, grid, double_check): fuzzyGet over the keys findNearPoint yields;
\* the generators are not started when nlargest takes nothing
fuzzyGetAroundLatLng(th, g, lat_lng, radius, fuzzy_value, field, approximate, min_match, from_keys, grid, double_check) ==
    LET near == findNearPoint(th, g, Some(lat_lng), radius, from_keys, grid, double_check)
    IN  IF approximate # None /\ approximate[1] <= 0 THEN [exc |-> "", out |-> <<>>]
        ELSE IF near.exc # "" THEN [exc |-> near.exc, out |-> <<>>]
        ELSE fuzzyGet(th, fuzzy_value, field, approximate, min_match,
                      Some({p[2] : p \in near.out}))

\* a _buildCacheKey that keeps the text as it was given
buildCacheKeyOfRawText(fuzzy_value, field, approximate, min_match) ==
    <<fuzzy_value, field, approximate, min_match>>

\* _buildCacheKey(fuzzy_value, field, approximate, min_match)
buildCacheKey(fuzzy_value, field, approximate, min_match) ==
    <<PlusJoin(clean(fuzzy_value)), field, approximate, min_match>>

\* _fuzzyGetBiased(entry): the forced result when there is one, else fuzzyGet(*entry)
fuzzyGetBiased(th, bias, entry) ==
    IF entry \in DOMAIN bias
    THEN [exc |-> "", match |-> bias[entry], computed |-> FALSE]
    ELSE LET r == fuzzyGet(th, entry[1], entry[2], entry[3], entry[4], None)
         IN  [exc |-> r.exc, match |-> PyList(r.out), computed |-> TRUE]

\* _debugFuzzy(match, fuzzy_value, field, show_bad): prints, or raises
debugFuzzy(th, match, field, show_bad) ==
    CASE match.kind = "none" -> TypeError
      [] match.kind = "str" -> ""
      [] OTHER ->
           IF \E i \in DOMAIN match.list :
                  /\ match.list[i][1] >= show_bad[1]
                  /\ match.list[i][1] < show_bad[2]
                  /\ get(th, match.list[i][2], Some(field), None).exc # ""
           THEN KeyError ELSE ""

-----------------------------------------------------------------------------
(* Mutations of the store *)

\* a set that never touches the fields
setKeepsFields(th, flds, key, field, value) ==
    LET old == IF key \in DOMAIN th THEN th[key] ELSE EmptyDict
    IN  [things |-> DictSet(th, key, DictSet(old, field, value)),
         fields |-> flds]

\* set(key, field, value): the things and the fields it leaves
set(th, flds, key, field, value) ==
    LET old == IF key \in DOMAIN th THEN th[key] ELSE EmptyDict
    IN  [things |-> DictSet(th, key, DictSet(old, field, value)),
         fields |-> IF field \in Range(flds) THEN flds ELSE Append(flds, field)]

\* delete(key): del self._things[key]
delete(th, key) ==
    IF key \in DOMAIN th THEN [exc |-> "", things |-> DictDel(th, key)]
    ELSE [exc |-> KeyError, things |-> th]

\* the orders in which dictionary.iteritems() may give the fields
RECURSIVE ItemOrders(_)
ItemOrders(S) ==
    IF S = {} THEN {<<>>}
    ELSE UNION {{<<x>> \o o : o \in ItemOrders(S \ {x})} : x \in S}

\* a setWithDict that stops after the first item
setWithDictFirstItem(th, flds, key, dictionary, order) ==
    IF order = <<>> THEN [things |-> th, fields |-> flds]
    ELSE set(th, flds, key, Head(order), dictionary[Head(order)])

\* setWithDict(key, dictionary): set(key, field, val) for each item, in the
\* order the dict gives them
RECURSIVE setWithDict(_, _, _, _, _)
setWithDict(th, flds, key, dictionary, order) ==
    IF order = <<>> THEN [things |-> th, fields |-> flds]
    ELSE LET s == set(th, flds, key, Head(order), dictionary[Head(order)])
         IN  setWithDict(s.things, s.fields, key, dictionary, Tail(order))

-----------------------------------------------------------------------------
(* Bounds and the inputs the calls are given *)

MaxMutations == 1
MaxCompute == 2
MaxStoreOps == 2

CacheTexts == {"paris de gaulle", "Paris  De GAULLE"}
CacheFields == {"name"}
CacheApproximates == {None, Some(1)}
CacheMinMatches == {40}
ShowBads == {<<100, 100>>, <<0, 100>>}
BiasedResults == {PyStr("Biased result"), PyList(<< <<100, "BQT">> >>)}
CacheSets == {<<"NEW", "lat", "1">>, <<"BQT", "name", "Paris Orly">>}
CacheDeletes == {"NEW", "CDG"}

Sets == {<<"NEW", "name", "Brest">>, <<"XXX", "lat", "1">>,
         <<"CDG", "lat", "2">>, <<"CDG", "lng", "x">>}
Deletes == {"CDG", "ZZZ"}

GetKeys == {"CDG", "NEW", "ZZZ"}
GetFields == {None, Some("name"), Some("lat"), Some("not_a_field")}
GetDefaults == {None, Some("There")}

Points == {<<0, 0>>, <<0, 2>>}
Radii == {Km(60), Km(120)}
FromKeys == {None, Some({"ORY", "BQT"}), Some({"CDG", "ZZZ"})}
NearKeys == {"ORY", "XXX", "CDG", "ZZZ"}
ClosestNs == {0, 1, 2}

FuzzyTexts == {"paris de gaulle", "Brussels"}
FuzzyApproximates == {None, Some(0), Some(1), Some(2)}
FuzzyMinMatches == {0, 75}
FuzzyFromKeys == {None, Some({"CDG", "ORY"}), Some({})}

StoreSets == {<<"NEW", "name", "Brest">>, <<"CDG", "new_field", "some_value">>,
              <<"CDG", "name", "Roissy">>}
StoreDicts == {[code |-> "NEW", name |-> "Nice"]}
StoreDeletes == {"CDG", "ZZZ"}

GridDicts == {[lat |-> "0", lng |-> "0"]}

KeyQueries == {<<"paris de gaulle", "name", None, 40>>,
               <<"Paris  De GAULLE", "name", None, 40>>,
               <<"paris de gaulle", "code", None, 40>>,
               <<"paris de gaulle", "name", None, 75>>,
               <<"paris de gaulle", "name", Some(1), 40>>}
KeyBiases == {<<"paris de gaulle", "name", None, 40>>,
              <<"Paris  De GAULLE", "name", None, 40>>}

ForcedQueries == {<<"paris de gaulle", "name", None, 40>>,
                  <<"paris de gaulle", "name", Some(1), 40>>}
ForcedResults == {PyStr("Biased result"), PyNone, PyList(<< <<85, "ZZZ">> >>)}
ForcedSets == {<<"NEW", "lat", "1">>}

AroundTexts == {"paris de gaulle"}
AroundApproximates == {None, Some(1)}
AroundMinMatches == {40}
AroundFromKeys == {None, Some({"ORY", "BQT"})}

-----------------------------------------------------------------------------
(* The state after construction *)

\* __init__: _loadFile() then createGrid(); a constructor that raises leaves
\* no object
Constructed(src) ==
    LET l == loadFile(src)
        g == createGrid(l.things, l.fields)
    IN  [exc |-> g.exc, things |-> l.things, fields |-> l.fields, ggrid |-> g.ggrid]

NoCall == [op |-> "__init__", exc |-> ""]

Init ==
    \E src \in Sources :
        /\ Constructed(src).exc = ""
        /\ things = Constructed(src).things
        /\ fields = Constructed(src).fields
        /\ ggrid = Constructed(src).ggrid
        /\ cache_fuzzy = EmptyDict
        /\ bias_cache_fuzzy = EmptyDict
        /\ ncompute = EmptyDict
        /\ mutations = 0
        /\ ret = NoCall

-----------------------------------------------------------------------------
(* The cache and the bias cache *)

Count(e) == IF e \in DOMAIN ncompute THEN ncompute[e] ELSE 0

CacheRet(op, entry, exc, value, computed, biased, n) ==
    [op |-> op, entry |-> entry, exc |-> exc, value |-> value,
     computed |-> computed, biased |-> biased, n |-> n]

NoEntry == <<"", "", None, 0>>

\* the arguments a cache call was given
CallArgs(fuzzy_value, field, approximate, min_match) ==
    [fuzzy_value |-> fuzzy_value, field |-> field, approximate |-> approximate,
     min_match |-> min_match]

\* fuzzyGetCached(fuzzy_value, field, approximate, min_match, verbose, show_bad)
FuzzyGetCached(fuzzy_value, field, approximate, min_match, verbose, show_bad) ==
    LET entry == buildCacheKey(fuzzy_value, field, approximate, min_match)
    IN  IF entry \in DOMAIN cache_fuzzy
        THEN /\ ret' = CallArgs(fuzzy_value, field, approximate, min_match)
                        @@ CacheRet("fuzzyGetCached", entry, "", cache_fuzzy[entry],
                                    FALSE, FALSE, 0)
             /\ UNCHANGED <<things, fields, ggrid, cache_fuzzy, bias_cache_fuzzy,
                            ncompute, mutations>>
        ELSE LET b == fuzzyGetBiased(things, bias_cache_fuzzy, entry)
                 d == IF verbose THEN debugFuzzy(things, b.match, field, show_bad) ELSE ""
             IN  /\ b.computed => Count(entry) < MaxCompute
                 /\ ncompute' = IF b.computed
                                THEN DictSet(ncompute, entry, Count(entry) + 1)
                                ELSE ncompute
                 /\ IF b.exc # ""
                    THEN /\ cache_fuzzy' = cache_fuzzy
                         /\ ret' = CallArgs(fuzzy_value, field, approximate, min_match)
                                    @@ CacheRet("fuzzyGetCached", entry, b.exc, PyNone,
                                                TRUE, FALSE, 0)
                    ELSE /\ cache_fuzzy' = DictSet(cache_fuzzy, entry, b.match)
                         /\ ret' = CallArgs(fuzzy_value, field, approximate, min_match)
                                    @@ CacheRet("fuzzyGetCached", entry, d,
                                                IF d = "" THEN b.match ELSE PyNone,
                                                b.computed, ~b.computed, 0)
                 /\ UNCHANGED <<things, fields, ggrid, bias_cache_fuzzy, mutations>>

\* biasFuzzyCache(fuzzy_value, field, approximate, min_match, biased_result)
BiasFuzzyCache(fuzzy_value, field, approximate, min_match, biased_result) ==
    LET entry == buildCacheKey(fuzzy_value, field, approximate, min_match)
    IN  /\ bias_cache_fuzzy' = DictSet(bias_cache_fuzzy, entry, biased_result)
        /\ ret' = CallArgs(fuzzy_value, field, approximate, min_match)
                   @@ CacheRet("biasFuzzyCache", entry, "", PyNone, FALSE, FALSE, 0)
        /\ UNCHANGED <<things, fields, ggrid, cache_fuzzy, ncompute, mutations>>

\* a clearCache that also drops the forced results
ClearCacheAlsoBias ==
    /\ cache_fuzzy' = EmptyDict
    /\ bias_cache_fuzzy' = EmptyDict
    /\ ncompute' = EmptyDict
    /\ ret' = CacheRet("clearCache", NoEntry, "", PyNone, FALSE, FALSE,
                       Cardinality(DOMAIN cache_fuzzy))
    /\ UNCHANGED <<things, fields, ggrid, mutations>>

\* clearCache(); ret.n is the number of entries dropped
ClearCache ==
    /\ cache_fuzzy' = EmptyDict
    /\ ncompute' = EmptyDict
    /\ ret' = CacheRet("clearCache", NoEntry, "", PyNone, FALSE, FALSE,
                       Cardinality(DOMAIN cache_fuzzy))
    /\ UNCHANGED <<things, fields, ggrid, bias_cache_fuzzy, mutations>>

\* clearBiasCache(); ret.n is the number of entries dropped
ClearBiasCache ==
    /\ bias_cache_fuzzy' = EmptyDict
    /\ ret' = CacheRet("clearBiasCache", NoEntry, "", PyNone, FALSE, FALSE,
                       Cardinality(DOMAIN bias_cache_fuzzy))
    /\ UNCHANGED <<things, fields, ggrid, cache_fuzzy, ncompute, mutations>>

\* a set that builds the grid again
SetOpBuildsGrid(max, key, field, value) ==
    /\ mutations < max
    /\ things' = set(things, fields, key, field, value).things
    /\ fields' = set(things, fields, key, field, value).fields
    /\ ggrid' = createGrid(set(things, fields, key, field, value).things,
                           set(things, fields, key, field, value).fields).ggrid
    /\ mutations' = mutations + 1
    /\ ret' = [op |-> "set", key |-> key, field |-> field, value |-> value, exc |-> ""]
    /\ UNCHANGED <<cache_fuzzy, bias_cache_fuzzy, ncompute>>

\* set(key, field, value), while fewer than max mutations were made
SetOp(max, key, field, value) ==
    /\ mutations < max
    /\ things' = set(things, fields, key, field, value).things
    /\ fields' = set(things, fields, key, field, value).fields
    /\ mutations' = mutations + 1
    /\ ret' = [op |-> "set", key |-> key, field |-> field, value |-> value, exc |-> ""]
    /\ UNCHANGED <<ggrid, cache_fuzzy, bias_cache_fuzzy, ncompute>>

\* set(key, field, value)
Set(key, field, value) == SetOp(MaxMutations, key, field, value)

\* setWithDict(key, dictionary), while fewer than max mutations were made; an
\* empty dictionary changes nothing
SetWithDictOp(max, key, dictionary) ==
    /\ mutations < max
    /\ \E order \in ItemOrders(DOMAIN dictionary) :
          /\ things' = setWithDict(things, fields, key, dictionary, order).things
          /\ fields' = setWithDict(things, fields, key, dictionary, order).fields
    /\ mutations' = mutations + 1
    /\ ret' = [op |-> "setWithDict", key |-> key, dictionary |-> dictionary, exc |-> ""]
    /\ UNCHANGED <<ggrid, cache_fuzzy, bias_cache_fuzzy, ncompute>>

\* setWithDict(key, dictionary)
SetWithDict(key, dictionary) == SetWithDictOp(MaxMutations, key, dictionary)

\* a delete that also empties the regular cache
DeleteOpDropsCache(max, key) ==
    /\ mutations < max
    /\ things' = delete(things, key).things
    /\ cache_fuzzy' = EmptyDict
    /\ mutations' = IF delete(things, key).exc = "" THEN mutations + 1 ELSE mutations
    /\ ret' = [op |-> "delete", key |-> key, exc |-> delete(things, key).exc,
               data |-> IF key \in DOMAIN things THEN things[key] ELSE EmptyDict]
    /\ UNCHANGED <<fields, ggrid, bias_cache_fuzzy, ncompute>>

\* delete(key), while fewer than max mutations were made; data is the record
\* get(key) returned before the call
DeleteOp(max, key) ==
    /\ mutations < max
    /\ things' = delete(things, key).things
    /\ mutations' = IF delete(things, key).exc = "" THEN mutations + 1 ELSE mutations
    /\ ret' = [op |-> "delete", key |-> key, exc |-> delete(things, key).exc,
               data |-> IF key \in DOMAIN things THEN things[key] ELSE EmptyDict]
    /\ UNCHANGED <<fields, ggrid, cache_fuzzy, bias_cache_fuzzy, ncompute>>

\* delete(key)
Delete(key) == DeleteOp(MaxMutations, key)

NextCache ==
    \/ \E t \in CacheTexts, f \in CacheFields, a \in CacheApproximates,
          m \in CacheMinMatches, v \in BOOLEAN, sb \in ShowBads :
          FuzzyGetCached(t, f, a, m, v, sb)
    \/ \E t \in CacheTexts, f \in CacheFields, a \in CacheApproximates,
          m \in CacheMinMatches, r \in BiasedResults :
          BiasFuzzyCache(t, f, a, m, r)
    \/ ClearCache
    \/ ClearBiasCache
    \/ \E s \in CacheSets : Set(s[1], s[2], s[3])
    \/ \E k \in CacheDeletes : Delete(k)

CacheSources == {AirportsSource}

InitCache == Init /\ \E src \in CacheSources : things = Constructed(src).things

SpecCache == InitCache /\ [][NextCache]_vars

\* the cache under queries that differ by one argument, or by the writing of
\* the text only
NextKey ==
    \/ \E q \in KeyQueries : FuzzyGetCached(q[1], q[2], q[3], q[4], FALSE, <<100, 100>>)
    \/ \E q \in KeyBiases : BiasFuzzyCache(q[1], q[2], q[3], q[4], PyStr("Biased result"))
    \/ ClearCache
    \/ ClearBiasCache

SpecKey == InitCache /\ [][NextKey]_vars

\* the cache under forced results of every kind: a string, None, a list naming
\* a key that is not in the store
NextForced ==
    \/ \E q \in ForcedQueries, v \in BOOLEAN, sb \in ShowBads :
          FuzzyGetCached(q[1], q[2], q[3], q[4], v, sb)
    \/ \E q \in ForcedQueries, r \in ForcedResults :
          BiasFuzzyCache(q[1], q[2], q[3], q[4], r)
    \/ ClearCache
    \/ ClearBiasCache
    \/ \E s \in ForcedSets : Set(s[1], s[2], s[3])

SpecForced == InitCache /\ [][NextForced]_vars

\* the cache while the store is mutated by set, setWithDict and delete
NextStale ==
    \/ \E q \in ForcedQueries : FuzzyGetCached(q[1], q[2], q[3], q[4], FALSE, <<100, 100>>)
    \/ \E q \in KeyBiases : BiasFuzzyCache(q[1], q[2], q[3], q[4], PyStr("Biased result"))
    \/ ClearCache
    \/ \E s \in CacheSets : Set(s[1], s[2], s[3])
    \/ \E d \in StoreDicts : SetWithDict("NEW", d)
    \/ \E k \in CacheDeletes : Delete(k)

SpecStale == InitCache /\ [][NextStale]_vars

-----------------------------------------------------------------------------
(* Lookups and searches: each call records its arguments and its outcome *)

\* get(key, field, default)
Get(key, field, default) ==
    /\ ret' = [op |-> "get", key |-> key, field |-> field, default |-> default,
               exc |-> get(things, key, field, default).exc,
               res |-> get(things, key, field, default)]
    /\ UNCHANGED <<things, fields, ggrid, cache_fuzzy, bias_cache_fuzzy, ncompute,
                   mutations>>

GeoRet(op, key, lat_lng, radius, N, from_keys, grid, double_check, r) ==
    [op |-> op, key |-> key, lat_lng |-> lat_lng, radius |-> radius, N |-> N,
     from_keys |-> from_keys, grid |-> grid, double_check |-> double_check,
     exc |-> r.exc, out |-> r.out]

\* findNearPoint(lat_lng, radius, from_keys, grid, double_check)
FindNearPoint(lat_lng, radius, from_keys, grid, double_check) ==
    /\ ret' = GeoRet("findNearPoint", "", lat_lng, radius, 0, from_keys, grid, double_check,
                     findNearPoint(things, ggrid, Some(lat_lng), radius, from_keys,
                                   grid, double_check))
    /\ UNCHANGED <<things, fields, ggrid, cache_fuzzy, bias_cache_fuzzy, ncompute,
                   mutations>>

\* findNearKey(key, radius, from_keys, grid, double_check)
FindNearKey(key, radius, from_keys, grid, double_check) ==
    /\ ret' = GeoRet("findNearKey", key, <<0, 0>>, radius, 0, from_keys, grid, double_check,
                     findNearKey(things, ggrid, key, radius, from_keys, grid, double_check))
    /\ UNCHANGED <<things, fields, ggrid, cache_fuzzy, bias_cache_fuzzy, ncompute,
                   mutations>>

\* findClosestFromPoint(lat_lng, N, from_keys, grid, double_check)
FindClosestFromPoint(lat_lng, N, from_keys, grid, double_check) ==
    /\ ret' = GeoRet("findClosestFromPoint", "", lat_lng, PosInf, N, from_keys, grid,
                     double_check,
                     findClosestFromPoint(things, ggrid, lat_lng, N, from_keys,
                                          grid, double_check))
    /\ UNCHANGED <<things, fields, ggrid, cache_fuzzy, bias_cache_fuzzy, ncompute,
                   mutations>>

\* fuzzyGet(fuzzy_value, field, approximate, min_match, from_keys)
FuzzyGet(fuzzy_value, field, approximate, min_match, from_keys) ==
    /\ ret' = [op |-> "fuzzyGet", fuzzy_value |-> fuzzy_value, field |-> field,
               approximate |-> approximate, min_match |-> min_match,
               from_keys |-> from_keys,
               exc |-> fuzzyGet(things, fuzzy_value, field, approximate, min_match,
                                from_keys).exc,
               out |-> fuzzyGet(things, fuzzy_value, field, approximate, min_match,
                                from_keys).out]
    /\ UNCHANGED <<things, fields, ggrid, cache_fuzzy, bias_cache_fuzzy, ncompute,
                   mutations>>

Mutate ==
    \/ \E s \in Sets : Set(s[1], s[2], s[3])
    \/ \E k \in Deletes : Delete(k)

\* the store: lookups and mutations
Next ==
    \/ \E k \in GetKeys, f \in GetFields, d \in GetDefaults : Get(k, f, d)
    \/ Mutate

Spec == Init /\ [][Next]_vars

\* setWithDict(key, data) right after delete(key), data being the record
\* get(key) returned before the delete
Restore ==
    /\ ret.op = "delete"
    /\ ret.exc = ""
    /\ SetWithDictOp(MaxStoreOps, ret.key, ret.data)

\* the store under longer sequences of mutations, setWithDict included
NextStore ==
    \/ \E k \in GetKeys, f \in GetFields, d \in GetDefaults : Get(k, f, d)
    \/ \E s \in StoreSets : SetOp(MaxStoreOps, s[1], s[2], s[3])
    \/ \E d \in StoreDicts : SetWithDictOp(MaxStoreOps, "NEW", d)
    \/ \E k \in StoreDeletes : DeleteOp(MaxStoreOps, k)
    \/ Restore

StoreSources == Sources \cup {OverwriteSource}

InitStore ==
    \E src \in StoreSources :
        /\ Constructed(src).exc = ""
        /\ things = Constructed(src).things
        /\ fields = Constructed(src).fields
        /\ ggrid = Constructed(src).ggrid
        /\ cache_fuzzy = EmptyDict
        /\ bias_cache_fuzzy = EmptyDict
        /\ ncompute = EmptyDict
        /\ mutations = 0
        /\ ret = NoCall

SpecStore == InitStore /\ [][NextStore]_vars

\* the radius searches
NextNear ==
    \/ \E p \in Points, r \in Radii, fk \in FromKeys, g \in BOOLEAN, dc \in BOOLEAN :
          FindNearPoint(p, r, fk, g, dc)
    \/ \E k \in NearKeys, r \in Radii, g \in BOOLEAN, dc \in BOOLEAN :
          FindNearKey(k, r, None, g, dc)
    \/ Mutate

SpecNear == Init /\ [][NextNear]_vars

\* the N closest
NextClosest ==
    \/ \E p \in Points, n \in ClosestNs, fk \in FromKeys, g \in BOOLEAN, dc \in BOOLEAN :
          FindClosestFromPoint(p, n, fk, g, dc)
    \/ Mutate

SpecClosest == Init /\ [][NextClosest]_vars

\* the fuzzy searches without cache
NextFuzzy ==
    \/ \E t \in FuzzyTexts, a \in FuzzyApproximates, m \in FuzzyMinMatches,
          fk \in FuzzyFromKeys :
          FuzzyGet(t, "name", a, m, fk)
    \/ Mutate

SpecFuzzy == Init /\ [][NextFuzzy]_vars

\* fuzzyGetAroundLatLng(lat_lng, radius, fuzzy_value, field, approximate, min_match,
\* from_keys, grid, double_check)
FuzzyGetAroundLatLng(lat_lng, radius, fuzzy_value, field, approximate, min_match, from_keys, grid, double_check) ==
    /\ ret' = [op |-> "fuzzyGetAroundLatLng", lat_lng |-> lat_lng, radius |-> radius,
               fuzzy_value |-> fuzzy_value, field |-> field,
               approximate |-> approximate, min_match |-> min_match,
               from_keys |-> from_keys, grid |-> grid, double_check |-> double_check,
               exc |-> fuzzyGetAroundLatLng(things, ggrid, lat_lng, radius, fuzzy_value,
                                            field, approximate, min_match, from_keys,
                                            grid, double_check).exc,
               out |-> fuzzyGetAroundLatLng(things, ggrid, lat_lng, radius, fuzzy_value,
                                            field, approximate, min_match, from_keys,
                                            grid, double_check).out]
    /\ UNCHANGED <<things, fields, ggrid, cache_fuzzy, bias_cache_fuzzy, ncompute,
                   mutations>>

\* the fuzzy searches around a point
NextAround ==
    \/ \E p \in Points, r \in Radii, t \in AroundTexts, a \in AroundApproximates,
          m \in AroundMinMatches, fk \in AroundFromKeys, g \in BOOLEAN, dc \in BOOLEAN :
          FuzzyGetAroundLatLng(p, r, t, "name", a, m, fk, g, dc)
    \/ Mutate

SpecAround == Init /\ [][NextAround]_vars

\* the radius search over all the keys, and every mutation
NextGrid ==
    \/ \E p \in Points, r \in Radii, g \in BOOLEAN, dc \in BOOLEAN :
          FindNearPoint(p, r, None, g, dc)
    \/ Mutate
    \/ \E d \in GridDicts : SetWithDict("NEW", d)

SpecGrid == Init /\ [][NextGrid]_vars

\* the searches over no candidate: from_keys is empty
NextEmpty ==
    \/ \E p \in Points, r \in Radii, g \in BOOLEAN, dc \in BOOLEAN :
          FindNearPoint(p, r, Some({}), g, dc)
    \/ \E p \in Points, n \in ClosestNs, g \in BOOLEAN, dc \in BOOLEAN :
          FindClosestFromPoint(p, n, Some({}), g, dc)
    \/ \E t \in FuzzyTexts, a \in FuzzyApproximates, m \in FuzzyMinMatches :
          FuzzyGet(t, "name", a, m, Some({}))
    \/ Mutate

SpecEmpty == Init /\ [][NextEmpty]_vars

-----------------------------------------------------------------------------
(* The cache and bias claims, under SpecCache *)

\* C1 (as claimed): while an entry has a forced result r, set by biasFuzzyCache
\* and not yet dropped by clearBiasCache, every fuzzyGetCached call for that
\* entry that returns, returns r, whatever the regular cache holds.
C1_BiasAlwaysReturned ==
    (ret.op = "fuzzyGetCached" /\ ret.exc = "" /\ ret.entry \in DOMAIN bias_cache_fuzzy)
        => ret.value = bias_cache_fuzzy[ret.entry]

\* C2 (as claimed): a fuzzyGetCached call answered from the bias map leaves the
\* regular cache unchanged and does not run fuzzyGet.
C2_BiasAnswerLeavesCache ==
    [][(ret'.op = "fuzzyGetCached" /\ ret'.biased)
          => (cache_fuzzy' = cache_fuzzy /\ ~ret'.computed)]_vars

\* C3 (as claimed): between two clearCache calls fuzzyGetCached runs fuzzyGet at
\* most once for an entry (fuzzyGet is only run for an entry without forced
\* result), and a call for an entry already cached returns the cached result.
C3_ComputedAtMostOnce ==
    /\ \A e \in DOMAIN ncompute : ncompute[e] <= 1
    /\ (ret.op = "fuzzyGetCached" /\ ret.exc = "" /\ ~ret.computed /\ ~ret.biased)
          => ret.value = cache_fuzzy[ret.entry]

\* C4: clearCache empties the regular cache and leaves the bias map alone,
\* clearBiasCache empties the bias map and leaves the regular cache alone, and
\* no other call than biasFuzzyCache and clearBiasCache changes the bias map.
C4_ClearsAreIndependent ==
    [][/\ ret'.op = "clearCache"
            => (cache_fuzzy' = EmptyDict /\ bias_cache_fuzzy' = bias_cache_fuzzy)
       /\ ret'.op = "clearBiasCache"
            => (bias_cache_fuzzy' = EmptyDict /\ cache_fuzzy' = cache_fuzzy)
       /\ bias_cache_fuzzy' # bias_cache_fuzzy
            => ret'.op \in {"biasFuzzyCache", "clearBiasCache"}]_vars

\* C4's case: clearCache has dropped entries while forced results were set
C4_Witness ==
    /\ ret.op = "clearCache"
    /\ ret.n > 0
    /\ bias_cache_fuzzy # EmptyDict

-----------------------------------------------------------------------------
(* The vocabulary of the claims about locations *)

\* the record of the key is in the store and its lat and lng both parse
HasGeoPoint(th, k) ==
    /\ k \in DOMAIN th
    /\ {"lat", "lng"} \subseteq DOMAIN th[k]
    /\ FloatOk(th[k]["lat"])
    /\ FloatOk(th[k]["lng"])

GeoPoint(th, k) == <<FloatTable[th[k]["lat"]], FloatTable[th[k]["lng"]]>>

\* the (distance, key) of the candidates with a GeoPoint within the radius
ExactNear(th, lat_lng, radius, keys) ==
    {<<haversine(lat_lng, GeoPoint(th, k)), k>> :
        k \in {j \in keys : HasGeoPoint(th, j)
                            /\ WithinRadius(haversine(lat_lng, GeoPoint(th, j)), radius)}}

OutKeys(out) == {out[i][2] : i \in DOMAIN out}

-----------------------------------------------------------------------------
(* The store claim, under Spec *)

\* C5: get returns the default (when one is given) or raises the not-found
\* KeyError for an absent key; for a present key it returns the whole record
\* when field is None, raises the field KeyError for a field the record lacks,
\* default or not, and else returns the stored value.
C5_GetContract ==
    ret.op = "get" =>
        IF ret.key \notin DOMAIN things
        THEN IF ret.default # None
             THEN ret.res.exc = "" /\ ret.res.kind = "str" /\ ret.res.str = ret.default[1]
             ELSE ret.res.exc = ThingNotFound
        ELSE IF ret.field = None
             THEN ret.res.exc = "" /\ ret.res.kind = "dict" /\ ret.res.dict = things[ret.key]
             ELSE IF ret.field[1] \notin DOMAIN things[ret.key]
                  THEN ret.res.exc = FieldNotFound
                  ELSE /\ ret.res.exc = ""
                       /\ ret.res.kind = "str"
                       /\ ret.res.str = things[ret.key][ret.field[1]]

\* C5's case: an unknown field of a present key, asked with a default
C5_Witness ==
    /\ ret.op = "get"
    /\ ret.key \in DOMAIN things
    /\ ret.field # None
    /\ ret.field[1] \notin DOMAIN things[ret.key]
    /\ ret.default # None
    /\ ret.res.exc = FieldNotFound

-----------------------------------------------------------------------------
(* The radius search claims, under SpecNear *)

\* C6 (as claimed): findNearKey, with or without the grid, returns nothing and
\* raises nothing for a key of the store that has no GeoPoint, and raises a
\* not-found error for a key absent from the store.
C6_FindNearKeyErrors ==
    ret.op = "findNearKey" =>
        /\ (ret.key \in DOMAIN things /\ ~HasGeoPoint(things, ret.key))
              => (ret.exc = "" /\ ret.out = {})
        /\ ret.key \notin DOMAIN things => IsKeyError(ret.exc)

-----------------------------------------------------------------------------
(* The closest-points claims, under SpecClosest *)

\* the properties of a list of closest points: its length, its keys, its order,
\* and that no candidate left out is strictly closer than a returned one
ClosestAnswer(th, lat_lng, N, from_keys, out) ==
    LET keys == KeysOrAll(th, from_keys)
        cands == {k \in keys : HasGeoPoint(th, k)}
    IN  /\ Len(out) = Min2(N, Cardinality(cands))
        /\ Cardinality(OutKeys(out)) = Len(out)
        /\ \A i \in DOMAIN out :
              /\ out[i][2] \in cands
              /\ out[i][1] = haversine(lat_lng, GeoPoint(th, out[i][2]))
        /\ \A i, j \in DOMAIN out : i < j => out[i][1] <= out[j][1]
        /\ \A k \in cands \ OutKeys(out) : \A i \in DOMAIN out :
              haversine(lat_lng, GeoPoint(th, k)) >= out[i][1]

ClosestIsMinOfNear(th, g, lat_lng, grid, double_check, out) ==
    LET near == findNearPoint(th, g, Some(lat_lng), PosInf, None, grid, double_check)
    IN  /\ near.exc = ""
        /\ near.out # {}
        /\ Len(out) = 1
        /\ out[1] \in near.out
        /\ \A q \in near.out : out[1][1] <= q[1]

-----------------------------------------------------------------------------
(* The fuzzy search claim, under SpecFuzzy *)

Score(th, fuzzy_value, field, k) == mod_leven(fuzzy_value, th[k][field])

C11_ThresholdIsExact ==
    (ret.op = "fuzzyGet" /\ ret.exc = "") =>
        /\ \A i \in DOMAIN ret.out :
              /\ ret.out[i][1] >= ret.min_match
              /\ ret.out[i][1] = Score(things, ret.fuzzy_value, ret.field, ret.out[i][2])
        /\ (ret.approximate = None \/ Len(ret.out) < ret.approximate[1]) =>
              \A k \in KeysOrAll(things, ret.from_keys) :
                 Score(things, ret.fuzzy_value, ret.field, k) >= ret.min_match
                    => k \in OutKeys(ret.out)

\* C11's case: without limit, a candidate kept and a candidate dropped for its
\* score
C11_Witness ==
    /\ ret.op = "fuzzyGet" /\ ret.exc = "" /\ ret.approximate = None
    /\ ret.out # <<>>
    /\ \E k \in KeysOrAll(things, ret.from_keys) :
          Score(things, ret.fuzzy_value, ret.field, k) < ret.min_match

-----------------------------------------------------------------------------
(* The claim about searches over no candidate, under SpecEmpty *)

\* C12 (as claimed): findNearPoint, findClosestFromPoint and fuzzyGet called
\* with an empty from_keys raise nothing and return nothing, with or without
\* the grid, for any N, limit and threshold.
C12_NoCandidateNoError ==
    (/\ ret.op \in {"findNearPoint", "findClosestFromPoint", "fuzzyGet"}
     /\ ret.from_keys = Some({}))
        => (ret.exc = "" /\ ret.out \in {{}, <<>>})

-----------------------------------------------------------------------------
(* The claim about the fuzzy search around a point, under SpecAround *)

\* the candidates that have a GeoPoint within the radius of the point
KeysWithin(th, lat_lng, radius, from_keys) ==
    {k \in KeysOrAll(th, from_keys) :
        HasGeoPoint(th, k) /\ WithinRadius(haversine(lat_lng, GeoPoint(th, k)), radius)}

\* what fuzzyGetAroundLatLng is said to return: keys of from_keys within the
\* radius scoring at least min_match, ranked as fuzzyGet ranks that key set
AroundAnswer(th, r) ==
    LET within == KeysWithin(th, r.lat_lng, r.radius, r.from_keys)
        ranked == fuzzyGet(th, r.fuzzy_value, r.field, r.approximate, r.min_match,
                           Some(within))
    IN  /\ \A i \in DOMAIN r.out :
              /\ r.out[i][2] \in within
              /\ r.out[i][1] >= r.min_match
        /\ ranked.exc = ""
        /\ r.out = ranked.out

-----------------------------------------------------------------------------
(* The loading and mutation claims, under SpecStore *)

\* the data lines of a source: not empty, not a comment
DataLines(src) ==
    {i \in DOMAIN src.source[1] : src.source[1][i] # <<>> /\ src.source[1][i] # Comment}

KeyOfLine(src, i) == keyer(src.headers, src.key_col, src.source[1][i])

\* the store holds, for each key of the source, the record of its last line alone
LastLineOnly(src, th) ==
    /\ DOMAIN th = {KeyOfLine(src, i) : i \in DataLines(src)}
    /\ \A k \in DOMAIN th :
          LET last == CHOOSE i \in DataLines(src) :
                         /\ KeyOfLine(src, i) = k
                         /\ \A j \in DataLines(src) : KeyOfLine(src, j) = k => j <= i
          IN  th[k] = LineRecord(src.headers, k, last, src.source[1][last])

C15_ImplicitFields ==
    \A k \in DOMAIN things :
        /\ {"__id__", "__ln__"} \subseteq DOMAIN things[k]
        /\ things[k]["__id__"] = k

\* every field of every record is listed in fields, and no field is listed twice
SchemaCovers(th, flds) ==
    /\ \A k \in DOMAIN th : DOMAIN th[k] \subseteq Range(flds)
    /\ \A i, j \in DOMAIN flds : flds[i] = flds[j] => i = j

C17_DeleteThenRestore ==
    [][/\ (ret'.op = "delete" /\ ret'.exc = "") =>
             /\ \A f \in GetFields \cup {Some(g) : g \in DOMAIN ret'.data} :
                   get(things', ret'.key, f, None) = Raised(ThingNotFound)
             /\ DOMAIN things' = DOMAIN things \ {ret'.key}
             /\ \A k \in DOMAIN things' : things'[k] = things[k]
             /\ ret'.data = things[ret'.key]
       /\ (/\ ret.op = "delete" /\ ret.exc = ""
           /\ ret'.op = "setWithDict"
           /\ ret'.key = ret.key /\ ret'.dictionary = ret.data) =>
             /\ \A f \in DOMAIN ret.data :
                   get(things', ret.key, Some(f), None)
                      = Returned("str", ret.data[f], EmptyDict)
             /\ get(things', ret.key, None, None) = Returned("dict", "", ret.data)
             /\ \A k \in DOMAIN things : things'[k] = things[k]
      ]_vars

\* C17's case: a deleted record of several fields has been put back
C17_Witness ==
    /\ ret.op = "setWithDict"
    /\ ret.key \in DOMAIN things
    /\ ret.dictionary = things[ret.key]
    /\ "__ln__" \in DOMAIN ret.dictionary
    /\ mutations = 2

-----------------------------------------------------------------------------
(* The claims about records without a location, and about the age of the grid *)

\* C18 (as claimed): the grid built at construction holds no record without a
\* GeoPoint, and findNearPoint, findNearKey (from a key that has a GeoPoint)
\* and findClosestFromPoint over candidates of the store, one of them without
\* a GeoPoint, raise nothing and return no key without a GeoPoint.
C18_NoGeoPointNoError ==
    /\ (mutations = 0 /\ ggrid # None) =>
          \A k \in DOMAIN ggrid[1].keys : HasGeoPoint(things, k)
    /\ (/\ ret.op \in {"findNearPoint", "findNearKey", "findClosestFromPoint"}
        /\ ret.op = "findNearKey" => HasGeoPoint(things, ret.key)
        /\ KeysOrAll(things, ret.from_keys) \subseteq DOMAIN things
        /\ \E k \in KeysOrAll(things, ret.from_keys) : ~HasGeoPoint(things, k))
          => /\ ret.exc = ""
             /\ \A p \in ret.out : HasGeoPoint(things, p[2])

\* what a findNearPoint over all the keys answers from: with the grid, the
\* positions the records had when the grid was built (and the keys the store
\* has now, from_keys being a filter); without it, the store as it is
AnswersFrom(th, g, r) ==
    IF r.grid
    THEN \E src \in Sources :
            /\ Constructed(src).exc = ""
            /\ g = Constructed(src).ggrid
            /\ LET built == Constructed(src).things
                   exact == {p \in ExactNear(built, r.lat_lng, r.radius, DOMAIN built) :
                               p[2] \in DOMAIN th}
               IN  /\ exact \subseteq r.out
                   /\ r.double_check => r.out = exact
                   /\ \A p \in r.out :
                         /\ p[2] \in DOMAIN th
                         /\ HasGeoPoint(built, p[2])
                         /\ p[1] = haversine(r.lat_lng, GeoPoint(built, p[2]))
    ELSE r.out = ExactNear(th, r.lat_lng, r.radius, DOMAIN th)

\* C19: the grid is the one built at construction: no step changes it, set,
\* setWithDict and delete included; after them a findNearPoint with the grid
\* still answers from the positions recorded when the grid was built, and one
\* without the grid from the store as it is.
C19_GridBuiltOnce ==
    [][/\ ggrid' = ggrid
       /\ (ret'.op = "findNearPoint" /\ ret'.exc = "")
             => AnswersFrom(things', ggrid', ret')
      ]_vars

\* C19's case: after a mutation, the grid gives a record at a distance that is
\* not the one its current position gives
C19_Witness ==
    /\ ret.op = "findNearPoint" /\ ret.exc = "" /\ ret.grid /\ ret.double_check
    /\ mutations = 1
    /\ \E p \in ret.out :
          /\ HasGeoPoint(things, p[2])
          /\ p[1] # haversine(ret.lat_lng, GeoPoint(things, p[2]))

-----------------------------------------------------------------------------
(* The claim about the cache key, under SpecKey *)

\* two calls give the same tokens, field, limit and min_match
SameQuery(a, b) ==
    /\ clean(a.fuzzy_value) = clean(b.fuzzy_value)
    /\ a.field = b.field
    /\ a.approximate = b.approximate
    /\ a.min_match = b.min_match

\* C20: calls whose texts give the same tokens, with the same field, limit and
\* min_match, address one entry, and calls that differ in one of them do not:
\* a lookup right after a lookup of the same query that returned gives the
\* result that one stored, without computing; a lookup right after a
\* biasFuzzyCache of the same query, its entry not being cached, gives the
\* forced result; a lookup of a query never asked nor forced is computed.
C20_OneEntryPerQuery ==
    [][ret'.op \in {"fuzzyGetCached", "biasFuzzyCache"} =>
          /\ \A q \in KeyQueries :
                (buildCacheKey(q[1], q[2], q[3], q[4]) = ret'.entry)
                   <=> SameQuery(CallArgs(q[1], q[2], q[3], q[4]), ret')
          /\ (/\ ret.op = "fuzzyGetCached" /\ ret.exc = ""
              /\ ret'.op = "fuzzyGetCached" /\ SameQuery(ret, ret'))
                => (ret'.exc = "" /\ ret'.value = ret.value /\ ~ret'.computed)
          /\ (/\ ret.op = "biasFuzzyCache"
              /\ ret'.op = "fuzzyGetCached" /\ SameQuery(ret, ret')
              /\ ret'.entry \notin DOMAIN cache_fuzzy)
                => (/\ ret'.exc = "" /\ ret'.biased
                    /\ ret'.value = bias_cache_fuzzy[ret'.entry])
          /\ (/\ ret'.op = "fuzzyGetCached"
              /\ \A q \in KeyQueries :
                    SameQuery(CallArgs(q[1], q[2], q[3], q[4]), ret')
                       => /\ buildCacheKey(q[1], q[2], q[3], q[4]) \notin DOMAIN cache_fuzzy
                          /\ buildCacheKey(q[1], q[2], q[3], q[4])
                                \notin DOMAIN bias_cache_fuzzy)
                => ret'.computed
      ]_vars

\* C20's case: a text not written as the first one is answered from the cache,
\* which holds other entries for the queries that differ
C20_Witness ==
    /\ ret.op = "fuzzyGetCached" /\ ret.exc = ""
    /\ ~ret.computed /\ ~ret.biased
    /\ ret.fuzzy_value = "Paris  De GAULLE"
    /\ ret.entry[1] = "paris+de+gaulle"
    /\ ret.value = cache_fuzzy[ret.entry]
    /\ Cardinality(DOMAIN cache_fuzzy) = 4
    /\ \A e \in DOMAIN ncompute : ncompute[e] = 1

-----------------------------------------------------------------------------
(* The claim about candidates without the target field, under SpecFuzzy *)

\* C21 (as claimed): a fuzzyGet whose candidates are all records of the store
\* does not fail; the candidates whose record lacks the target field are left
\* out of the result, and with no limit every candidate that has the field and
\* scores at least min_match is in it.
C21_MissingFieldLeftOut ==
    (/\ ret.op = "fuzzyGet"
     /\ KeysOrAll(things, ret.from_keys) \subseteq DOMAIN things) =>
        LET present == {k \in KeysOrAll(things, ret.from_keys) :
                           ret.field \in DOMAIN things[k]}
        IN  /\ ret.exc = ""
            /\ OutKeys(ret.out) \subseteq present
            /\ ret.approximate = None =>
                  OutKeys(ret.out)
                     = {k \in present :
                          Score(things, ret.fuzzy_value, ret.field, k) >= ret.min_match}

-----------------------------------------------------------------------------
(* The claim about failures of the cached search, under SpecForced *)

\* C22 (as claimed): a fuzzyGetCached call that does not run fuzzyGet (it is
\* answered from the bias map or from the regular cache) raises nothing,
\* whatever the forced result, verbose and show_bad are; and a fuzzyGetCached
\* call that raises leaves the regular cache and the bias map as they were.
C22_OnlyComputeFails ==
    [][ret'.op = "fuzzyGetCached" =>
          /\ ~ret'.computed => ret'.exc = ""
          /\ ret'.exc # "" =>
                /\ cache_fuzzy' = cache_fuzzy
                /\ bias_cache_fuzzy' = bias_cache_fuzzy]_vars

-----------------------------------------------------------------------------
(* The claim about the cache under mutations of the store, under SpecStale *)

\* C23: set, setWithDict and delete leave the regular cache and the bias map
\* as they were; a fuzzyGetCached call for an entry of the regular cache
\* returns the cached result without running fuzzyGet, whatever has been done
\* to the store since; and a call for an entry that is in neither map, as
\* after clearCache, returns when it returns what fuzzyGet gives on the
\* current store.
C23_MutationsLeaveCaches ==
    [][/\ ret'.op \in {"set", "setWithDict", "delete"} =>
             /\ cache_fuzzy' = cache_fuzzy
             /\ bias_cache_fuzzy' = bias_cache_fuzzy
       /\ (ret'.op = "fuzzyGetCached" /\ ret'.entry \in DOMAIN cache_fuzzy) =>
             /\ ret'.exc = ""
             /\ ret'.value = cache_fuzzy[ret'.entry]
             /\ ~ret'.computed
       /\ (/\ ret'.op = "fuzzyGetCached" /\ ret'.exc = ""
           /\ ret'.entry \notin DOMAIN cache_fuzzy
           /\ ret'.entry \notin DOMAIN bias_cache_fuzzy) =>
             /\ ret'.computed
             /\ ret'.value = PyList(fuzzyGet(things', ret'.fuzzy_value, ret'.field,
                                             ret'.approximate, ret'.min_match, None).out)]_vars

\* C23's case: after a delete the cache has answered with a result that names
\* the deleted key
C23_Witness ==
    /\ ret.op = "fuzzyGetCached" /\ ret.exc = ""
    /\ ~ret.computed /\ ~ret.biased
    /\ mutations > 0
    /\ \E i \in DOMAIN ret.value.list : ret.value.list[i][2] \notin DOMAIN things

-----------------------------------------------------------------------------
(* The claim about geo support and the grid, under SpecGrid *)

\* C24 (as claimed): in every state where hasGeoSupport() is true the grid
\* object exists, and a search called with grid=True in such a state does not
\* fail for want of a grid; also on a store created empty and given lat or lng
\* through set or setWithDict.
C24_GeoSupportHasGrid ==
    hasGeoSupport(fields) =>
        /\ ggrid # None
        /\ (/\ ret.op \in {"findNearPoint", "findNearKey", "findClosestFromPoint"}
            /\ ret.grid) => ret.exc # AttributeError

-----------------------------------------------------------------------------
(* The claim about keys no longer in the store, under SpecNear *)

\* C25: findNearPoint and findNearKey called with from_keys=None give only
\* keys that are in the store at the time of the call, with the grid and
\* without it: a key removed by delete is not given any more, although the
\* grid built at construction still holds it.
C25_OnlyStoreKeys ==
    (ret.op \in {"findNearPoint", "findNearKey"} /\ ret.from_keys = None) =>
        {p[2] : p \in ret.out} \subseteq DOMAIN things

\* C25's case: a search through the grid has returned keys, and the grid's own
\* answer held a key that is no longer in the store
C25_Witness ==
    /\ ret.op = "findNearPoint" /\ ret.exc = ""
    /\ ret.from_keys = None /\ ret.grid
    /\ ret.out # {}
    /\ ggrid # None
    /\ \E p \in GridFindNearPoint(ggrid[1], ret.lat_lng, ret.radius, ret.double_check) :
          p[2] \notin DOMAIN things

=============================================================================
